---- MODULE Spec2Model ----
(***************************************************************************)
(* The paper-trading ledger of backend/portfolioManager.js: one JSON file  *)
(* (portfolio.json) holding the ledger, and the async operations buyStock, *)
(* sellStock, buyOption, closeOption and resetPortfolio that load it,      *)
(* change their private copy and write it back.  Every `await` of the code *)
(* is a point where another request of the same Node.js process may run,   *)
(* so each operation is a sequence of steps; the code between two awaits   *)
(* is one step.                                                            *)
(*                                                                         *)
(* Money is modelled in whole dollars (integers); the rounding of the      *)
(* code's IEEE doubles is not modelled.  percentReturn, the one quotient   *)
(* the ledger stores, is kept as an exact fraction, with the non-finite    *)
(* results of a division by zero kept apart.                               *)
(***************************************************************************)
EXTENDS Integers, Sequences, FiniteSets, TLC

\* ---------------------------------------------------------------- bounds
\* Calls issued in one run of interleaved requests (the ledger grows with
\* every call).
MaxCalls == 4
\* Calls issued in one run of requests served one at a time.
MaxSeqCalls == 3
\* Last value of the millisecond clock (Date.now()).
MaxClock == 1
\* Calls issued in one run that also asks for valuations.
MaxViewCalls == 3
\* Calls issued in one run of interleaved requests whose every step is
\* eventually taken.
MaxLiveCalls == 2
\* Calls of a run in which valuations and trades are in flight together.
MaxSnapshotCalls == 3

\* Research requests of a run of the route.
MaxResearchCalls == 2
\* Requests for the market widgets in one run, and the waits between them.
MaxCacheCalls == 3
MaxWaits == 3

\* ------------------------------------------------------------ input sets
\* HTTP requests that can be in flight together.
Requests == {"r1", "r2"}

\* The arguments the routes of server.js pass on.  Nothing there or in
\* portfolioManager.js rejects a zero or negative number, so AnyInputs holds
\* some: an order is <<quantity, price>> or <<premium, contracts>>.
AnyInputs ==
  [symbols |-> {"AAPL", "TSLA"},
   stockOrders |-> {<<2, 250000>>, <<0, 250000>>},
   sellPrices |-> {-1, 250000, 500000},
   optionTypes |-> {"call", "put"},
   optionOrders |-> {<<2500, 2>>, <<0, 2>>},
   exitPremiums |-> {-1, 5000}]

\* Arguments as the specification wants them (all positive), for the runs
\* that interleave requests.
ValidInputs ==
  [symbols |-> {"AAPL"},
   stockOrders |-> {<<2, 500000>>},
   sellPrices |-> {250000},
   optionTypes |-> {"call"},
   optionOrders |-> {<<2500, 2>>},
   exitPremiums |-> {5000}]

\* Arguments for the runs with valuations, and the prices the quote service
\* answers with (fetchStockData throws on a price of 0 or none).
ViewInputs ==
  [symbols |-> {"AAPL"},
   stockOrders |-> {<<2, 250000>>, <<0, 250000>>},
   sellPrices |-> {500000},
   optionTypes |-> {"call"},
   optionOrders |-> {<<2500, 2>>},
   exitPremiums |-> {5000},
   quotes |-> {100000, 500000}]

Strikes == {250}
Expirations == {"2026-01-01"}

\* --------------------------------------------------------------- state
VARIABLES
  file,   \* portfolio.json: absent, partially written, or a JSON ledger
  clock,  \* Date.now()
  req,    \* req[r]: the operation request r is running, and where it is
  calls,  \* calls issued so far
  widgetCache  \* server.js: the market widgets' cache

vars == <<file, clock, req, calls, widgetCache>>

\* ------------------------------------------------------------- ledger
StartingBalance == 1000000

initializePortfolio(now) ==
  [balance |-> StartingBalance,
   openPositions |-> <<>>,
   closedTrades |-> <<>>,
   totalPL |-> 0,
   createdAt |-> now]

\* JSON has no NaN or Infinity: JSON.stringify writes them as null.
JsonNull == [kind |-> "null", num |-> 0, den |-> 1]

JsonNumber(v) == IF v.kind \in {"NaN", "Infinity", "-Infinity"} THEN JsonNull ELSE v

JsonTrade(t) == [t EXCEPT !.percentReturn = JsonNumber(@)]

\* JSON.stringify(portfolio) followed by JSON.parse: what a later load gets
\* back of a ledger that was saved.
Stringify(portfolio) ==
  [portfolio EXCEPT !.closedTrades =
     [i \in 1..Len(portfolio.closedTrades) |-> JsonTrade(portfolio.closedTrades[i])]]

FileAbsent == [kind |-> "absent"]
FilePartial == [kind |-> "partial"]
FileJson(text) == [kind |-> "json", data |-> text]

\* (profitLoss / costBasis) * 100 in JavaScript numbers.
PercentReturn(profitLoss, costBasis) ==
  IF costBasis = 0
    THEN [kind |-> IF profitLoss = 0 THEN "NaN"
                   ELSE IF profitLoss > 0 THEN "Infinity" ELSE "-Infinity",
          num |-> 0, den |-> 1]
    ELSE [kind |-> "finite",
          num |-> IF costBasis < 0 THEN -(profitLoss * 100) ELSE profitLoss * 100,
          den |-> IF costBasis < 0 THEN -costBasis ELSE costBasis]

\* Array.prototype.findIndex, given the callback's verdict on each element:
\* the first index whose verdict is TRUE, 0 (JavaScript's -1) when there is
\* none.
FindIndex(verdicts) ==
  IF \E i \in 1..Len(verdicts) : verdicts[i]
    THEN CHOOSE i \in 1..Len(verdicts) :
           /\ verdicts[i]
           /\ \A j \in 1..(i - 1) : ~verdicts[j]
    ELSE 0

\* Array.prototype.splice(index): the element and all that follow it go.
SpliceToEnd(seq, index) ==
  [i \in 1..(index - 1) |-> seq[i]]

\* Array.prototype.splice(index, 1)
Splice(seq, index) ==
  [i \in 1..(Len(seq) - 1) |-> IF i < index THEN seq[i] ELSE seq[i + 1]]

\* ------------------------------------------------------------ requests
NoLedger == [none |-> TRUE]
NoResult == [kind |-> "none"]
Idle == [pc |-> "idle", op |-> "none", args |-> [none |-> TRUE], read |-> "none",
         loaded |-> NoLedger, portfolio |-> NoLedger, result |-> NoResult]

ErrInsufficientFunds == "Insufficient funds"
ErrNoOpenPosition == "No open position found"
ErrPositionNotFound == "Position not found"
ErrNotAnOption == "Position is not an option"

Failure(message) == [kind |-> "error", message |-> message]

\* lastUpdated: null
Null == [kind |-> "null"]

Init ==
  /\ file = FileAbsent
  /\ clock = 0
  /\ req = [r \in Requests |-> Idle]
  /\ calls = 0
  /\ widgetCache = [indexes |-> <<>>, movers |-> <<>>, lastUpdated |-> Null]

\* Date.now() moves on between any two steps.
Tick ==
  /\ clock < MaxClock
  /\ clock' = clock + 1
  /\ UNCHANGED <<file, req, calls, widgetCache>>

\* loadPortfolio, up to the end of its readFile: the file's ledger when it
\* parses; otherwise (no file, or text that JSON.parse rejects) the catch
\* block builds a fresh ledger and starts saving it.  read keeps what
\* readFile met: "json", "absent" or "partial".
LoadPortfolio(r, op, args) ==
  IF file.kind = "json"
    THEN [pc |-> "loaded", op |-> op, args |-> args, read |-> file.kind,
          loaded |-> file.data, portfolio |-> file.data, result |-> NoResult]
    ELSE [pc |-> "loadSave", op |-> op, args |-> args, read |-> file.kind,
          loaded |-> initializePortfolio(clock),
          portfolio |-> initializePortfolio(clock), result |-> NoResult]

Call(r, op, args, budget) ==
  /\ req[r].pc = "idle"
  /\ calls < budget
  /\ calls' = calls + 1
  /\ req' = [req EXCEPT ![r] = LoadPortfolio(r, op, args)]
  /\ UNCHANGED <<file, clock, widgetCache>>

CallBuyStock(r, U, budget) ==
  \E symbol \in U.symbols, order \in U.stockOrders :
    Call(r, "buyStock", [symbol |-> symbol, shares |-> order[1], price |-> order[2]], budget)

CallSellStock(r, U, budget) ==
  \E symbol \in U.symbols, currentPrice \in U.sellPrices :
    Call(r, "sellStock", [symbol |-> symbol, currentPrice |-> currentPrice], budget)

CallBuyOption(r, U, budget) ==
  \E symbol \in U.symbols, type \in U.optionTypes, strike \in Strikes,
     expiration \in Expirations, order \in U.optionOrders :
    Call(r, "buyOption", [symbol |-> symbol, type |-> type, strike |-> strike,
                          expiration |-> expiration, premium |-> order[1],
                          contracts |-> order[2]], budget)

\* The ids a client can name: those Date.now().toString() can have produced.
PositionIds == {ToString(t) : t \in 0..MaxClock}

CallCloseOption(r, U, budget) ==
  \E positionId \in PositionIds, exitPremium \in U.exitPremiums :
    Call(r, "closeOption", [positionId |-> positionId, exitPremium |-> exitPremium], budget)

\* resetPortfolio returning the fresh ledger without saving it.
CallResetWithoutSave(r, budget) ==
  /\ req[r].pc = "idle"
  /\ calls < budget
  /\ calls' = calls + 1
  /\ req' = [req EXCEPT ![r] =
       [pc |-> "done", op |-> "resetPortfolio", args |-> [none |-> TRUE],
        read |-> "none", loaded |-> NoLedger, portfolio |-> initializePortfolio(clock),
        result |-> [kind |-> "success", portfolio |-> initializePortfolio(clock)]]]
  /\ UNCHANGED <<file, clock, widgetCache>>

\* resetPortfolio builds the fresh ledger and starts saving it; it loads nothing.
CallReset(r, budget) ==
  /\ req[r].pc = "idle"
  /\ calls < budget
  /\ calls' = calls + 1
  /\ req' = [req EXCEPT ![r] =
       [pc |-> "save", op |-> "resetPortfolio", args |-> [none |-> TRUE],
        read |-> "none", loaded |-> NoLedger, portfolio |-> initializePortfolio(clock),
        result |-> NoResult]]
  /\ UNCHANGED <<file, clock, widgetCache>>

\* savePortfolio not awaited: the operation returns its result when the
\* write has only begun.
SaveTruncateReturns(r) ==
  /\ req[r].pc \in {"loadSave", "save"}
  /\ file' = FilePartial
  /\ req' = [req EXCEPT ![r] =
       IF req[r].pc = "loadSave"
         THEN [@ EXCEPT !.pc = "loadWrite"]
         ELSE [@ EXCEPT !.pc = "done",
                        !.result = IF req[r].op = "resetPortfolio"
                                     THEN [kind |-> "success", portfolio |-> req[r].portfolio]
                                     ELSE [kind |-> "success",
                                           newBalance |-> req[r].portfolio.balance]]]
  /\ UNCHANGED <<clock, calls, widgetCache>>

\* savePortfolio: fs.writeFile opens the file with flag 'w', which truncates
\* it, and writes the text afterwards.
SaveTruncate(r) ==
  /\ req[r].pc \in {"loadSave", "save"}
  /\ file' = FilePartial
  /\ req' = [req EXCEPT ![r].pc = IF req[r].pc = "loadSave" THEN "loadWrite" ELSE "write"]
  /\ UNCHANGED <<clock, calls, widgetCache>>

\* The value the operation returns once its save has completed.
Success(q) ==
  IF q.op = "resetPortfolio"
    THEN [kind |-> "success", portfolio |-> q.portfolio]
  ELSE IF q.op \in {"buyStock", "buyOption"}
    THEN [kind |-> "success",
          position |-> q.portfolio.openPositions[Len(q.portfolio.openPositions)],
          newBalance |-> q.portfolio.balance]
    ELSE [kind |-> "success",
          trade |-> q.portfolio.closedTrades[Len(q.portfolio.closedTrades)],
          newBalance |-> q.portfolio.balance]

\* savePortfolio writing again and again: after a write it starts over.
SaveWriteRetries(r) ==
  /\ req[r].pc \in {"loadWrite", "write"}
  /\ file' = FileJson(Stringify(req[r].portfolio))
  /\ req' = [req EXCEPT ![r] =
       IF req[r].pc = "loadWrite"
         THEN [@ EXCEPT !.pc = "loadSave"]
         ELSE [@ EXCEPT !.pc = "save"]]
  /\ UNCHANGED <<clock, calls, widgetCache>>

SaveWrite(r) ==
  /\ req[r].pc \in {"loadWrite", "write"}
  /\ file' = FileJson(Stringify(req[r].portfolio))
  /\ req' = [req EXCEPT ![r] =
       IF req[r].pc = "loadWrite"
         THEN [@ EXCEPT !.pc = "loaded"]
         ELSE [@ EXCEPT !.pc = "done", !.result = Success(req[r])]]
  /\ UNCHANGED <<clock, calls, widgetCache>>

\* buyStock with the funds check off by one: a cost equal to the balance is
\* refused.
BuyStockRejectsExact(portfolio, args, now) ==
  LET cost == args.shares * args.price
      position == [id |-> ToString(now), type |-> "stock", symbol |-> args.symbol,
                   shares |-> args.shares, entryPrice |-> args.price,
                   entryDate |-> now, costBasis |-> cost]
  IN IF cost >= portfolio.balance
       THEN [ok |-> FALSE, error |-> ErrInsufficientFunds, portfolio |-> portfolio]
       ELSE [ok |-> TRUE, error |-> "",
             portfolio |-> [portfolio EXCEPT
                              !.balance = @ - cost,
                              !.openPositions = Append(@, position)]]

\* buyStock putting the new position first instead of last.
BuyStockPrepends(portfolio, args, now) ==
  LET cost == args.shares * args.price
      position == [id |-> ToString(now), type |-> "stock", symbol |-> args.symbol,
                   shares |-> args.shares, entryPrice |-> args.price,
                   entryDate |-> now, costBasis |-> cost]
  IN IF cost > portfolio.balance
       THEN [ok |-> FALSE, error |-> ErrInsufficientFunds, portfolio |-> portfolio]
       ELSE [ok |-> TRUE, error |-> "",
             portfolio |-> [portfolio EXCEPT
                              !.balance = @ - cost,
                              !.openPositions = <<position>> \o @]]

\* buyStock adding the shares to the lot already held of the symbol, when
\* there is one, instead of opening a new position.
BuyStockMergesLot(portfolio, args, now) ==
  LET cost == args.shares * args.price
      position == [id |-> ToString(now), type |-> "stock", symbol |-> args.symbol,
                   shares |-> args.shares, entryPrice |-> args.price,
                   entryDate |-> now, costBasis |-> cost]
      held == FindIndex([i \in 1..Len(portfolio.openPositions) |->
                           /\ portfolio.openPositions[i].type = "stock"
                           /\ portfolio.openPositions[i].symbol = args.symbol])
  IN IF cost > portfolio.balance
       THEN [ok |-> FALSE, error |-> ErrInsufficientFunds, portfolio |-> portfolio]
     ELSE IF held # 0
       THEN [ok |-> TRUE, error |-> "",
             portfolio |-> [portfolio EXCEPT
                              !.balance = @ - cost,
                              !.openPositions[held].shares = @ + args.shares,
                              !.openPositions[held].costBasis = @ + cost]]
       ELSE [ok |-> TRUE, error |-> "",
             portfolio |-> [portfolio EXCEPT
                              !.balance = @ - cost,
                              !.openPositions = Append(@, position)]]

\* buyStock after its load.
BuyStock(portfolio, args, now) ==
  LET cost == args.shares * args.price
      position == [id |-> ToString(now),
                   type |-> "stock",
                   symbol |-> args.symbol,
                   shares |-> args.shares,
                   entryPrice |-> args.price,
                   entryDate |-> now,
                   costBasis |-> cost]
  IN IF cost > portfolio.balance
       THEN [ok |-> FALSE, error |-> ErrInsufficientFunds, portfolio |-> portfolio]
       ELSE [ok |-> TRUE, error |-> "",
             portfolio |-> [portfolio EXCEPT
                              !.balance = @ - cost,
                              !.openPositions = Append(@, position)]]

\* The last index whose verdict is TRUE, 0 when there is none.
FindLastIndex(verdicts) ==
  IF \E i \in 1..Len(verdicts) : verdicts[i]
    THEN CHOOSE i \in 1..Len(verdicts) :
           /\ verdicts[i]
           /\ \A j \in (i + 1)..Len(verdicts) : ~verdicts[j]
    ELSE 0

\* sellStock closing the newest lot of the symbol instead of the oldest.
SellStockLastLot(portfolio, args, now) ==
  LET IsStockOf(p) == p.type = "stock" /\ p.symbol = args.symbol
      positionIndex == FindLastIndex([i \in 1..Len(portfolio.openPositions) |->
                                       IsStockOf(portfolio.openPositions[i])])
      position == portfolio.openPositions[positionIndex]
      proceeds == position.shares * args.currentPrice
      profitLoss == proceeds - position.costBasis
      closedTrade == [exitPrice |-> args.currentPrice, exitDate |-> now,
                      proceeds |-> proceeds, profitLoss |-> profitLoss,
                      percentReturn |-> PercentReturn(profitLoss, position.costBasis)]
                     @@ position
  IN IF positionIndex = 0
       THEN [ok |-> FALSE, error |-> ErrNoOpenPosition, portfolio |-> portfolio]
       ELSE [ok |-> TRUE, error |-> "",
             portfolio |-> [portfolio EXCEPT
                              !.balance = @ + proceeds,
                              !.totalPL = @ + profitLoss,
                              !.openPositions = Splice(@, positionIndex),
                              !.closedTrades = Append(@, closedTrade)]]

\* sellStock that books the proceeds but not the realized profit or loss.
SellStockForgetsPL(portfolio, args, now) ==
  LET IsStockOf(p) == p.type = "stock" /\ p.symbol = args.symbol
      positionIndex == FindIndex([i \in 1..Len(portfolio.openPositions) |->
                                   IsStockOf(portfolio.openPositions[i])])
      position == portfolio.openPositions[positionIndex]
      proceeds == position.shares * args.currentPrice
      profitLoss == proceeds - position.costBasis
      closedTrade == [exitPrice |-> args.currentPrice, exitDate |-> now,
                      proceeds |-> proceeds, profitLoss |-> profitLoss,
                      percentReturn |-> PercentReturn(profitLoss, position.costBasis)]
                     @@ position
  IN IF positionIndex = 0
       THEN [ok |-> FALSE, error |-> ErrNoOpenPosition, portfolio |-> portfolio]
       ELSE [ok |-> TRUE, error |-> "",
             portfolio |-> [portfolio EXCEPT
                              !.balance = @ + proceeds,
                              !.openPositions = Splice(@, positionIndex),
                              !.closedTrades = Append(@, closedTrade)]]

\* sellStock taking the proceeds at the entry price instead of the price
\* it was given.
SellStockAtEntryPrice(portfolio, args, now) ==
  LET IsStockOf(p) == p.type = "stock" /\ p.symbol = args.symbol
      positionIndex == FindIndex([i \in 1..Len(portfolio.openPositions) |->
                                   IsStockOf(portfolio.openPositions[i])])
      position == portfolio.openPositions[positionIndex]
      proceeds == position.shares * position.entryPrice
      profitLoss == proceeds - position.costBasis
      closedTrade == [exitPrice |-> args.currentPrice, exitDate |-> now,
                      proceeds |-> proceeds, profitLoss |-> profitLoss,
                      percentReturn |-> PercentReturn(profitLoss, position.costBasis)]
                     @@ position
  IN IF positionIndex = 0
       THEN [ok |-> FALSE, error |-> ErrNoOpenPosition, portfolio |-> portfolio]
       ELSE [ok |-> TRUE, error |-> "",
             portfolio |-> [portfolio EXCEPT
                              !.balance = @ + proceeds,
                              !.totalPL = @ + profitLoss,
                              !.openPositions = Splice(@, positionIndex),
                              !.closedTrades = Append(@, closedTrade)]]

\* sellStock after its load.
SellStock(portfolio, args, now) ==
  LET IsStockOf(p) == p.type = "stock" /\ p.symbol = args.symbol
      positionIndex == FindIndex([i \in 1..Len(portfolio.openPositions) |->
                                   IsStockOf(portfolio.openPositions[i])])
      position == portfolio.openPositions[positionIndex]
      proceeds == position.shares * args.currentPrice
      profitLoss == proceeds - position.costBasis
      closedTrade == [exitPrice |-> args.currentPrice,
                      exitDate |-> now,
                      proceeds |-> proceeds,
                      profitLoss |-> profitLoss,
                      percentReturn |-> PercentReturn(profitLoss, position.costBasis)]
                     @@ position
  IN IF positionIndex = 0
       THEN [ok |-> FALSE, error |-> ErrNoOpenPosition, portfolio |-> portfolio]
       ELSE [ok |-> TRUE, error |-> "",
             portfolio |-> [portfolio EXCEPT
                              !.balance = @ + proceeds,
                              !.totalPL = @ + profitLoss,
                              !.openPositions = Splice(@, positionIndex),
                              !.closedTrades = Append(@, closedTrade)]]

\* buyOption charging the premium per contract, without the 100 shares a
\* contract stands for.
BuyOptionPerContract(portfolio, args, now) ==
  LET cost == args.premium * args.contracts
      position == [id |-> ToString(now), type |-> "option", optionType |-> args.type,
                   symbol |-> args.symbol, strike |-> args.strike,
                   expiration |-> args.expiration, contracts |-> args.contracts,
                   entryPremium |-> args.premium, entryDate |-> now,
                   costBasis |-> cost]
  IN IF cost > portfolio.balance
       THEN [ok |-> FALSE, error |-> ErrInsufficientFunds, portfolio |-> portfolio]
       ELSE [ok |-> TRUE, error |-> "",
             portfolio |-> [portfolio EXCEPT
                              !.balance = @ - cost,
                              !.openPositions = Append(@, position)]]

\* buyOption after its load.
BuyOption(portfolio, args, now) ==
  LET cost == args.premium * 100 * args.contracts
      position == [id |-> ToString(now),
                   type |-> "option",
                   optionType |-> args.type,
                   symbol |-> args.symbol,
                   strike |-> args.strike,
                   expiration |-> args.expiration,
                   contracts |-> args.contracts,
                   entryPremium |-> args.premium,
                   entryDate |-> now,
                   costBasis |-> cost]
  IN IF cost > portfolio.balance
       THEN [ok |-> FALSE, error |-> ErrInsufficientFunds, portfolio |-> portfolio]
       ELSE [ok |-> TRUE, error |-> "",
             portfolio |-> [portfolio EXCEPT
                              !.balance = @ - cost,
                              !.openPositions = Append(@, position)]]

\* closeOption looking the id up among the option positions only, so that a
\* stock position's id is reported as not found.
CloseOptionAmongOptions(portfolio, args, now) ==
  LET HasId(p) == p.id = args.positionId /\ p.type = "option"
      positionIndex == FindIndex([i \in 1..Len(portfolio.openPositions) |->
                                   HasId(portfolio.openPositions[i])])
      position == portfolio.openPositions[positionIndex]
      proceeds == args.exitPremium * 100 * position.contracts
      profitLoss == proceeds - position.costBasis
      closedTrade == [exitPremium |-> args.exitPremium, exitDate |-> now,
                      proceeds |-> proceeds, profitLoss |-> profitLoss,
                      percentReturn |-> PercentReturn(profitLoss, position.costBasis)]
                     @@ position
  IN IF positionIndex = 0
       THEN [ok |-> FALSE, error |-> ErrPositionNotFound, portfolio |-> portfolio]
       ELSE [ok |-> TRUE, error |-> "",
             portfolio |-> [portfolio EXCEPT
                              !.balance = @ + proceeds,
                              !.totalPL = @ + profitLoss,
                              !.openPositions = Splice(@, positionIndex),
                              !.closedTrades = Append(@, closedTrade)]]

\* closeOption taking the exit premium per contract, without the 100 shares
\* a contract stands for.
CloseOptionPerContract(portfolio, args, now) ==
  LET HasId(p) == p.id = args.positionId
      positionIndex == FindIndex([i \in 1..Len(portfolio.openPositions) |->
                                   HasId(portfolio.openPositions[i])])
      position == portfolio.openPositions[positionIndex]
      proceeds == args.exitPremium * position.contracts
      profitLoss == proceeds - position.costBasis
      closedTrade == [exitPremium |-> args.exitPremium, exitDate |-> now,
                      proceeds |-> proceeds, profitLoss |-> profitLoss,
                      percentReturn |-> PercentReturn(profitLoss, position.costBasis)]
                     @@ position
  IN IF positionIndex = 0
       THEN [ok |-> FALSE, error |-> ErrPositionNotFound, portfolio |-> portfolio]
     ELSE IF position.type # "option"
       THEN [ok |-> FALSE, error |-> ErrNotAnOption, portfolio |-> portfolio]
       ELSE [ok |-> TRUE, error |-> "",
             portfolio |-> [portfolio EXCEPT
                              !.balance = @ + proceeds,
                              !.totalPL = @ + profitLoss,
                              !.openPositions = Splice(@, positionIndex),
                              !.closedTrades = Append(@, closedTrade)]]

\* closeOption crediting the balance with the result instead of the
\* proceeds.
CloseOptionCreditsProfit(portfolio, args, now) ==
  LET HasId(p) == p.id = args.positionId
      positionIndex == FindIndex([i \in 1..Len(portfolio.openPositions) |->
                                   HasId(portfolio.openPositions[i])])
      position == portfolio.openPositions[positionIndex]
      proceeds == args.exitPremium * 100 * position.contracts
      profitLoss == proceeds - position.costBasis
      closedTrade == [exitPremium |-> args.exitPremium, exitDate |-> now,
                      proceeds |-> proceeds, profitLoss |-> profitLoss,
                      percentReturn |-> PercentReturn(profitLoss, position.costBasis)]
                     @@ position
  IN IF positionIndex = 0
       THEN [ok |-> FALSE, error |-> ErrPositionNotFound, portfolio |-> portfolio]
     ELSE IF position.type # "option"
       THEN [ok |-> FALSE, error |-> ErrNotAnOption, portfolio |-> portfolio]
       ELSE [ok |-> TRUE, error |-> "",
             portfolio |-> [portfolio EXCEPT
                              !.balance = @ + profitLoss,
                              !.totalPL = @ + profitLoss,
                              !.openPositions = Splice(@, positionIndex),
                              !.closedTrades = Append(@, closedTrade)]]

\* closeOption after its load.
CloseOption(portfolio, args, now) ==
  LET HasId(p) == p.id = args.positionId
      positionIndex == FindIndex([i \in 1..Len(portfolio.openPositions) |->
                                   HasId(portfolio.openPositions[i])])
      position == portfolio.openPositions[positionIndex]
      proceeds == args.exitPremium * 100 * position.contracts
      profitLoss == proceeds - position.costBasis
      closedTrade == [exitPremium |-> args.exitPremium,
                      exitDate |-> now,
                      proceeds |-> proceeds,
                      profitLoss |-> profitLoss,
                      percentReturn |-> PercentReturn(profitLoss, position.costBasis)]
                     @@ position
  IN IF positionIndex = 0
       THEN [ok |-> FALSE, error |-> ErrPositionNotFound, portfolio |-> portfolio]
     ELSE IF position.type # "option"
       THEN [ok |-> FALSE, error |-> ErrNotAnOption, portfolio |-> portfolio]
       ELSE [ok |-> TRUE, error |-> "",
             portfolio |-> [portfolio EXCEPT
                              !.balance = @ + proceeds,
                              !.totalPL = @ + profitLoss,
                              !.openPositions = Splice(@, positionIndex),
                              !.closedTrades = Append(@, closedTrade)]]

Operation(q, now) ==
  CASE q.op = "buyStock" -> BuyStock(q.portfolio, q.args, now)
    [] q.op = "sellStock" -> SellStock(q.portfolio, q.args, now)
    [] q.op = "buyOption" -> BuyOption(q.portfolio, q.args, now)
    [] q.op = "closeOption" -> CloseOption(q.portfolio, q.args, now)

\* The operation saving its copy of the ledger also when its check has
\* thrown.
ComputeSavesOnFailure(r) ==
  /\ req[r].pc = "loaded"
  /\ req[r].op # "getPortfolio"
  /\ LET out == Operation(req[r], clock)
     IN req' = [req EXCEPT ![r] =
          IF out.ok
            THEN [@ EXCEPT !.pc = "save", !.portfolio = out.portfolio]
            ELSE [@ EXCEPT !.pc = "save", !.result = Failure(out.error)]]
  /\ UNCHANGED <<file, clock, calls, widgetCache>>

\* The code between the end of the load and the start of the save: on a
\* throw the operation is over, otherwise savePortfolio is called.
Compute(r) ==
  /\ req[r].pc = "loaded"
  /\ req[r].op # "getPortfolio"
  /\ LET out == Operation(req[r], clock)
     IN req' = [req EXCEPT ![r] =
          IF out.ok
            THEN [@ EXCEPT !.pc = "save", !.portfolio = out.portfolio]
            ELSE [@ EXCEPT !.pc = "done", !.result = Failure(out.error)]]
  /\ UNCHANGED <<file, clock, calls, widgetCache>>

\* The caller takes the result; the request slot is free again.
Return(r) ==
  /\ req[r].pc = "done"
  /\ req' = [req EXCEPT ![r] = Idle]
  /\ UNCHANGED <<file, clock, calls, widgetCache>>

\* --------------------------------------------------------------- valuation
\* A number 0 written in the code.
Zero == [kind |-> "finite", num |-> 0, den |-> 1]

\* What getCurrentPrice does for one position: it throws, or returns a price.
QuoteFailed == [ok |-> FALSE, price |-> 0]

QuoteOutcomes(U) == {QuoteFailed} \cup {[ok |-> TRUE, price |-> c] : c \in U.quotes}

\* The valuation with the unrealized result of a stock taken as cost basis
\* minus value.
ValuePositionSignFlipped(position, quote) ==
  IF quote.ok
    THEN IF position.type = "stock"
      THEN LET currentValue == position.shares * quote.price
               unrealizedPL == position.costBasis - currentValue
           IN [currentPrice |-> quote.price, currentValue |-> currentValue,
               unrealizedPL |-> unrealizedPL,
               unrealizedPercent |-> PercentReturn(unrealizedPL, position.costBasis)]
              @@ position
      ELSE [underlyingPrice |-> quote.price, currentValue |-> position.costBasis,
            unrealizedPL |-> 0, unrealizedPercent |-> Zero]
           @@ position
    ELSE [currentValue |-> position.costBasis, unrealizedPL |-> 0,
          unrealizedPercent |-> Zero]
         @@ position

\* The valuation giving a position whose price lookup failed the value 0.
ValuePositionZeroOnFailure(position, quote) ==
  IF quote.ok
    THEN IF position.type = "stock"
      THEN LET currentValue == position.shares * quote.price
               unrealizedPL == currentValue - position.costBasis
           IN [currentPrice |-> quote.price, currentValue |-> currentValue,
               unrealizedPL |-> unrealizedPL,
               unrealizedPercent |-> PercentReturn(unrealizedPL, position.costBasis)]
              @@ position
      ELSE [underlyingPrice |-> quote.price, currentValue |-> position.costBasis,
            unrealizedPL |-> 0, unrealizedPercent |-> Zero]
           @@ position
    ELSE [currentValue |-> 0, unrealizedPL |-> 0 - position.costBasis,
          unrealizedPercent |-> PercentReturn(0 - position.costBasis, position.costBasis)]
         @@ position

\* The valuation pricing an option at the underlying's price, 100 shares a
\* contract.
ValuePositionPricesOptions(position, quote) ==
  IF quote.ok
    THEN IF position.type = "stock"
      THEN LET currentValue == position.shares * quote.price
               unrealizedPL == currentValue - position.costBasis
           IN [currentPrice |-> quote.price, currentValue |-> currentValue,
               unrealizedPL |-> unrealizedPL,
               unrealizedPercent |-> PercentReturn(unrealizedPL, position.costBasis)]
              @@ position
      ELSE LET currentValue == quote.price * 100 * position.contracts
               unrealizedPL == currentValue - position.costBasis
           IN [underlyingPrice |-> quote.price, currentValue |-> currentValue,
               unrealizedPL |-> unrealizedPL,
               unrealizedPercent |-> PercentReturn(unrealizedPL, position.costBasis)]
              @@ position
    ELSE [currentValue |-> position.costBasis, unrealizedPL |-> 0,
          unrealizedPercent |-> Zero]
         @@ position

\* The callback of openPositions.map, for one position and the outcome of
\* its price lookup.
ValuePosition(position, quote) ==
  IF quote.ok
    THEN IF position.type = "stock"
      THEN LET currentValue == position.shares * quote.price
               unrealizedPL == currentValue - position.costBasis
           IN [currentPrice |-> quote.price,
               currentValue |-> currentValue,
               unrealizedPL |-> unrealizedPL,
               unrealizedPercent |-> PercentReturn(unrealizedPL, position.costBasis)]
              @@ position
      ELSE [underlyingPrice |-> quote.price,
            currentValue |-> position.costBasis,
            unrealizedPL |-> 0,
            unrealizedPercent |-> Zero]
           @@ position
    ELSE [currentValue |-> position.costBasis,
          unrealizedPL |-> 0,
          unrealizedPercent |-> Zero]
         @@ position

\* reduce((sum, pos) => sum + pos.currentValue, 0)
RECURSIVE SumCurrentValue(_)
SumCurrentValue(positions) ==
  IF positions = <<>> THEN 0
  ELSE positions[1].currentValue + SumCurrentValue(Tail(positions))

\* reduce((sum, pos) => sum + pos.unrealizedPL, 0)
RECURSIVE SumUnrealizedPL(_)
SumUnrealizedPL(positions) ==
  IF positions = <<>> THEN 0
  ELSE positions[1].unrealizedPL + SumUnrealizedPL(Tail(positions))

\* getPortfolio leaving the cash balance out of the total value.
GetPortfolioPositionsOnly(portfolio, quotes) ==
  LET openPositionsWithValues ==
        [i \in 1..Len(portfolio.openPositions) |->
           ValuePosition(portfolio.openPositions[i], quotes[i])]
      totalPortfolioValue == SumCurrentValue(openPositionsWithValues)
      totalUnrealizedPL == SumUnrealizedPL(openPositionsWithValues)
  IN [balance |-> portfolio.balance,
      openPositions |-> openPositionsWithValues,
      closedTrades |-> portfolio.closedTrades,
      totalPL |-> portfolio.totalPL,
      totalUnrealizedPL |-> totalUnrealizedPL,
      totalPortfolioValue |-> totalPortfolioValue,
      totalReturn |-> totalPortfolioValue - StartingBalance,
      totalReturnPercent |-> PercentReturn(totalPortfolioValue - StartingBalance, StartingBalance)]

\* getPortfolio after its load; quotes[i] is the outcome of the price lookup
\* made for the i-th open position.
GetPortfolio(portfolio, quotes) ==
  LET openPositionsWithValues ==
        [i \in 1..Len(portfolio.openPositions) |->
           ValuePosition(portfolio.openPositions[i], quotes[i])]
      totalPortfolioValue == portfolio.balance + SumCurrentValue(openPositionsWithValues)
      totalUnrealizedPL == SumUnrealizedPL(openPositionsWithValues)
  IN [balance |-> portfolio.balance,
      openPositions |-> openPositionsWithValues,
      closedTrades |-> portfolio.closedTrades,
      totalPL |-> portfolio.totalPL,
      totalUnrealizedPL |-> totalUnrealizedPL,
      totalPortfolioValue |-> totalPortfolioValue,
      totalReturn |-> totalPortfolioValue - StartingBalance,
      totalReturnPercent |-> PercentReturn(totalPortfolioValue - StartingBalance, StartingBalance)]

CallGetPortfolio(r, budget) ==
  Call(r, "getPortfolio", [none |-> TRUE], budget)

\* getPortfolio writing the valued ledger back to the file.
ValuateSavesView(r, U) ==
  /\ req[r].pc = "loaded"
  /\ req[r].op = "getPortfolio"
  /\ \E quotes \in [1..Len(req[r].portfolio.openPositions) -> QuoteOutcomes(U)] :
       req' = [req EXCEPT ![r] =
         [@ EXCEPT !.pc = "save",
                   !.args = [getCurrentPrice |-> quotes],
                   !.portfolio = [@ EXCEPT !.openPositions =
                                    GetPortfolio(req[r].portfolio, quotes).openPositions]]]
  /\ UNCHANGED <<file, clock, calls, widgetCache>>

\* getPortfolio reading the file again once the price lookups are over, and
\* building the view's balance, trades and total from that second read.
ValuateReadsAgain(r, U) ==
  /\ req[r].pc = "loaded"
  /\ req[r].op = "getPortfolio"
  /\ \E quotes \in [1..Len(req[r].portfolio.openPositions) -> QuoteOutcomes(U)] :
       LET view == GetPortfolio(req[r].portfolio, quotes)
           again == IF file.kind = "json" THEN file.data ELSE req[r].portfolio
       IN req' = [req EXCEPT ![r] =
            [@ EXCEPT !.pc = "done",
                      !.args = [getCurrentPrice |-> quotes],
                      !.result = [kind |-> "success",
                                  view |-> [view EXCEPT
                                              !.balance = again.balance,
                                              !.closedTrades = again.closedTrades,
                                              !.totalPL = again.totalPL]]]]
  /\ UNCHANGED <<file, clock, calls, widgetCache>>

\* The rest of getPortfolio: one price lookup for every open position, each
\* with an outcome of its own, and the view returned.  Nothing is saved.
\* args keeps the answers getCurrentPrice gave.
Valuate(r, U) ==
  /\ req[r].pc = "loaded"
  /\ req[r].op = "getPortfolio"
  /\ \E quotes \in [1..Len(req[r].portfolio.openPositions) -> QuoteOutcomes(U)] :
       req' = [req EXCEPT ![r] =
         [@ EXCEPT !.pc = "done",
                   !.args = [getCurrentPrice |-> quotes],
                   !.result = [kind |-> "success",
                               view |-> GetPortfolio(req[r].portfolio, quotes)]]]
  /\ UNCHANGED <<file, clock, calls, widgetCache>>

\* The steps of the requests in R, with arguments from U.
NextOf(R, U, budget) ==
  \/ Tick
  \/ \E r \in R : CallBuyStock(r, U, budget)
  \/ \E r \in R : CallSellStock(r, U, budget)
  \/ \E r \in R : CallBuyOption(r, U, budget)
  \/ \E r \in R : CallCloseOption(r, U, budget)
  \/ \E r \in R : CallReset(r, budget)
  \/ \E r \in R : Compute(r)
  \/ \E r \in R : SaveTruncate(r)
  \/ \E r \in R : SaveWrite(r)
  \/ \E r \in R : Return(r)

\* Requests arrive while others are in flight.
Next == NextOf(Requests, ValidInputs, MaxCalls)

Spec == Init /\ [][Next]_vars

\* One request at a time, with any arguments.
NextSeq == NextOf({"r1"}, AnyInputs, MaxSeqCalls)

SpecSeq == Init /\ [][NextSeq]_vars

\* Requests arrive while others are in flight, and the event loop runs
\* every continuation that is ready: a read or write that has been started
\* completes, and the code after an await runs once the await is over.
NextLive == NextOf(Requests, ValidInputs, MaxLiveCalls)

Fairness ==
  \A r \in Requests :
    /\ WF_vars(Compute(r))
    /\ WF_vars(SaveTruncate(r))
    /\ WF_vars(SaveWrite(r))

SpecLive == Init /\ [][NextLive]_vars /\ Fairness

\* One request at a time, trades and valuations.
NextView ==
  \/ NextOf({"r1"}, ViewInputs, MaxViewCalls)
  \/ CallGetPortfolio("r1", MaxViewCalls)
  \/ Valuate("r1", ViewInputs)

SpecView == Init /\ [][NextView]_vars

\* Arguments and quotes for the runs in which valuations and trades are in
\* flight together.
SnapshotInputs ==
  [symbols |-> {"AAPL"},
   stockOrders |-> {<<2, 250000>>},
   sellPrices |-> {500000},
   optionTypes |-> {"call"},
   optionOrders |-> {<<2500, 2>>},
   exitPremiums |-> {5000},
   quotes |-> {100000}]

\* Valuations and trades in flight together.
NextSnapshot ==
  \/ NextOf(Requests, SnapshotInputs, MaxSnapshotCalls)
  \/ \E r \in Requests : CallGetPortfolio(r, MaxSnapshotCalls)
  \/ \E r \in Requests : Valuate(r, SnapshotInputs)

SpecSnapshot == Init /\ [][NextSnapshot]_vars

\* ------------------------------------------------------- market widgets
\* server.js keeps the answers of GET /api/indexes and GET /api/top-movers
\* in widgetCache.  Index and mover data are known by the time they were
\* fetched at (asOf).
CACHE_DURATION == 5 * 60 * 1000

\* The time that passes between two requests of a run, in milliseconds.
WaitStep == 3 * 60 * 1000

Number(t) == [kind |-> "number", value |-> t]

\* JavaScript's truthiness of lastUpdated: null and 0 are not.
Truthy(v) == v.kind = "number" /\ v.value # 0

\* What the quote loop of a widget route can collect at a time: the quotes
\* as of then, or nothing when every quote failed.
QuotesAt(symbol, now) == {<<>>, <<[symbol |-> symbol, asOf |-> now]>>}

Wait ==
  /\ clock < MaxWaits * WaitStep
  /\ clock' = clock + WaitStep
  /\ UNCHANGED <<file, req, calls, widgetCache>>

\* GET /api/indexes up to its first await: the cached answer, or the start
\* of the quote loop.
CallIndexes(r) ==
  /\ req[r].pc = "idle"
  /\ calls < MaxCacheCalls
  /\ calls' = calls + 1
  /\ req' = [req EXCEPT ![r] =
       IF /\ Len(widgetCache.indexes) > 0
          /\ Truthy(widgetCache.lastUpdated)
          /\ clock - widgetCache.lastUpdated.value < CACHE_DURATION
         THEN [Idle EXCEPT !.pc = "done", !.op = "indexes",
                           !.result = [kind |-> "success", indexes |-> widgetCache.indexes,
                                       cached |-> TRUE, servedAt |-> clock]]
         ELSE [Idle EXCEPT !.pc = "fetching", !.op = "indexes"]]
  /\ UNCHANGED <<file, clock, widgetCache>>

\* GET /api/indexes after its quote loop: the data go into the cache and
\* into the answer.
FinishIndexes(r) ==
  /\ req[r].pc = "fetching"
  /\ req[r].op = "indexes"
  /\ \E indexData \in QuotesAt("SPY", clock) :
       /\ widgetCache' = [widgetCache EXCEPT !.indexes = indexData]
       /\ req' = [req EXCEPT ![r] =
            [@ EXCEPT !.pc = "done",
                      !.result = [kind |-> "success", indexes |-> indexData,
                                  cached |-> FALSE, servedAt |-> clock]]]
  /\ UNCHANGED <<file, clock, calls>>

\* GET /api/top-movers up to its first await.
CallTopMovers(r) ==
  /\ req[r].pc = "idle"
  /\ calls < MaxCacheCalls
  /\ calls' = calls + 1
  /\ req' = [req EXCEPT ![r] =
       IF /\ Truthy(widgetCache.lastUpdated)
          /\ clock - widgetCache.lastUpdated.value < CACHE_DURATION
         THEN [Idle EXCEPT !.pc = "done", !.op = "top-movers",
                           !.result = [kind |-> "success", movers |-> widgetCache.movers,
                                       cached |-> TRUE, servedAt |-> clock]]
         ELSE [Idle EXCEPT !.pc = "fetching", !.op = "top-movers"]]
  /\ UNCHANGED <<file, clock, widgetCache>>

\* GET /api/top-movers after its quote loop: the movers and the time go
\* into the cache.
FinishTopMovers(r) ==
  /\ req[r].pc = "fetching"
  /\ req[r].op = "top-movers"
  /\ \E topMovers \in QuotesAt("AAPL", clock) :
       /\ widgetCache' = [widgetCache EXCEPT !.movers = topMovers,
                                             !.lastUpdated = Number(clock)]
       /\ req' = [req EXCEPT ![r] =
            [@ EXCEPT !.pc = "done",
                      !.result = [kind |-> "success", movers |-> topMovers,
                                  cached |-> FALSE, servedAt |-> clock]]]
  /\ UNCHANGED <<file, clock, calls>>

NextCache ==
  \/ Wait
  \/ \E r \in Requests : CallIndexes(r)
  \/ \E r \in Requests : FinishIndexes(r)
  \/ \E r \in Requests : CallTopMovers(r)
  \/ \E r \in Requests : FinishTopMovers(r)
  \/ \E r \in Requests : Return(r)

SpecCache == Init /\ [][NextCache]_vars

\* ------------------------------------------------------ research route
\* POST /api/research reads a trade command out of the query text.  A query
\* is the sequence of its words (the text split at white space).
ResearchQueries ==
  {<<"buy", "2", "AAPL">>,
   <<"buy", "2", "shares", "of", "AAPL">>,
   <<"sell", "my", "AAPL", "position">>,
   <<"buy", "2", "AAPL", "250", "call", "at", "2500">>,
   <<"buy", "2", "AAPL", "250", "puts", "2500">>,
   <<"how", "is", "AAPL">>}

\* The queries of the runs through the research route, and the price the
\* quote service answers with.
ResearchInputs == [queries |-> ResearchQueries, quotes |-> {250000}]

\* parseInt / parseFloat of a word that \d+ has matched.
parseInt ==
  [w \in {"0", "2", "250", "2500"} |->
     CASE w = "0" -> 0 [] w = "2" -> 2 [] w = "250" -> 250 [] w = "2500" -> 2500]

parseFloat == parseInt

\* \d+ followed by white space matches a word of digits.
IsDigits(w) == w \in DOMAIN parseInt

\* [A-Z]{1,5} under /i takes the first letters of a word, five at most.
LetterRun(w) ==
  CASE w = "shares" -> "share"
    [] w = "position" -> "posit"
    [] OTHER -> w

StartsWithLetter(w) == ~IsDigits(w)

NoMatch == [matched |-> FALSE]

\* The leftmost place where a pattern matches, as String.prototype.match
\* finds it.
FirstOf(S) == CHOOSE i \in S : \A j \in S : i <= j

\* /buy\s+(\d+)\s+(?:shares?\s+of\s+)?([A-Z]{1,5})/i at word i: the symbol
\* is taken after "shares of" when that is there, otherwise right after the
\* number.
TradeSymbolAt(query, i) ==
  IF /\ i + 4 <= Len(query)
     /\ query[i + 2] \in {"share", "shares"}
     /\ query[i + 3] = "of"
     /\ StartsWithLetter(query[i + 4])
    THEN <<LetterRun(query[i + 4])>>
    ELSE IF i + 2 <= Len(query) /\ StartsWithLetter(query[i + 2])
           THEN <<LetterRun(query[i + 2])>>
           ELSE <<>>

tradeMatch(query) ==
  LET S == {i \in 1..Len(query) :
              /\ query[i] = "buy"
              /\ i + 1 <= Len(query)
              /\ IsDigits(query[i + 1])
              /\ TradeSymbolAt(query, i) # <<>>}
  IN IF S = {} THEN NoMatch
     ELSE [matched |-> TRUE,
           quantity |-> query[FirstOf(S) + 1],
           symbol |-> TradeSymbolAt(query, FirstOf(S))[1]]

\* /sell\s+(?:my\s+)?([A-Z]{1,5})(?:\s+position)?/i at word i.
SellSymbolAt(query, i) ==
  IF /\ i + 2 <= Len(query)
     /\ query[i + 1] = "my"
     /\ StartsWithLetter(query[i + 2])
    THEN <<LetterRun(query[i + 2])>>
    ELSE IF i + 1 <= Len(query) /\ StartsWithLetter(query[i + 1])
           THEN <<LetterRun(query[i + 1])>>
           ELSE <<>>

sellMatch(query) ==
  LET S == {i \in 1..Len(query) :
              query[i] = "sell" /\ SellSymbolAt(query, i) # <<>>}
  IN IF S = {} THEN NoMatch
     ELSE [matched |-> TRUE, symbol |-> SellSymbolAt(query, FirstOf(S))[1]]

\* /buy\s+(\d+)\s+([A-Z]{1,5})\s+(\d+)\s+(call|put)s?\s+(?:at\s+)?\$?(\d+(?:\.\d+)?)/i
\* at word i: the premium is the word after "at" when that is there,
\* otherwise the word after call or put.
OptionPremiumAt(query, i) ==
  IF /\ i + 6 <= Len(query)
     /\ query[i + 5] = "at"
     /\ IsDigits(query[i + 6])
    THEN <<query[i + 6]>>
    ELSE IF i + 5 <= Len(query) /\ IsDigits(query[i + 5])
           THEN <<query[i + 5]>>
           ELSE <<>>

optionMatch(query) ==
  LET S == {i \in 1..Len(query) :
              /\ query[i] = "buy"
              /\ i + 4 <= Len(query)
              /\ IsDigits(query[i + 1])
              /\ StartsWithLetter(query[i + 2])
              /\ LetterRun(query[i + 2]) = query[i + 2]
              /\ IsDigits(query[i + 3])
              /\ query[i + 4] \in {"call", "calls", "put", "puts"}
              /\ OptionPremiumAt(query, i) # <<>>}
  IN IF S = {} THEN NoMatch
     ELSE LET i == FirstOf(S)
          IN [matched |-> TRUE,
              contracts |-> query[i + 1],
              symbol |-> query[i + 2],
              strike |-> query[i + 3],
              optionType |-> IF query[i + 4] \in {"call", "calls"}
                               THEN "call" ELSE "put",
              premium |-> OptionPremiumAt(query, i)[1]]

ErrNoData == "No data found for symbol"

\* The route's answer when no ledger operation has been called: a trade
\* whose quote lookup threw, or a query that is no trade command.
Answered(query, result) ==
  [Idle EXCEPT !.pc = "done", !.op = "research",
               !.args = [query |-> query], !.result = result]

\* The if / else if chain of the route, up to the end of the load of the
\* ledger operation it calls.  quote is what fetchStockData does.
Research(r, query, quote) ==
  LET trade == tradeMatch(query)
      sell == sellMatch(query)
      option == optionMatch(query)
  IN IF trade.matched
       THEN IF quote.ok
              THEN LoadPortfolio(r, "buyStock",
                     [symbol |-> trade.symbol,
                      shares |-> parseInt[trade.quantity],
                      price |-> quote.price,
                      query |-> query])
              ELSE Answered(query, Failure(ErrNoData))
     ELSE IF sell.matched
       THEN IF quote.ok
              THEN LoadPortfolio(r, "sellStock",
                     [symbol |-> sell.symbol,
                      currentPrice |-> quote.price,
                      query |-> query])
              ELSE Answered(query, Failure(ErrNoData))
     ELSE IF option.matched
       THEN LoadPortfolio(r, "buyOption",
              [symbol |-> option.symbol,
               type |-> option.optionType,
               strike |-> parseFloat[option.strike],
               expiration |-> "2026-01-01",
               premium |-> parseFloat[option.premium],
               contracts |-> parseInt[option.contracts],
               query |-> query])
     ELSE Answered(query, [kind |-> "success", trade |-> Null])

CallResearch(r, U, budget) ==
  /\ req[r].pc = "idle"
  /\ calls < budget
  /\ calls' = calls + 1
  /\ \E query \in U.queries, quote \in QuoteOutcomes(U) :
       req' = [req EXCEPT ![r] = Research(r, query, quote)]
  /\ UNCHANGED <<file, clock, widgetCache>>

\* One research request at a time.
NextResearch ==
  \/ Tick
  \/ CallResearch("r1", ResearchInputs, MaxResearchCalls)
  \/ Compute("r1")
  \/ SaveTruncate("r1")
  \/ SaveWrite("r1")
  \/ Return("r1")

SpecResearch == Init /\ [][NextResearch]_vars

\* ------------------------------------------------------------- properties
Persisted == file.kind = "json"

Finished(r, op) == req[r].pc = "done" /\ req[r].op = op

Succeeded(r) == req[r].result.kind = "success"

Failed(r, message) == req[r].result = Failure(message)

RECURSIVE SumProfitLoss(_)
SumProfitLoss(trades) ==
  IF trades = <<>> THEN 0
  ELSE trades[1].profitLoss + SumProfitLoss(Tail(trades))

\* C1: the persisted balance is never negative, whatever the calls and their
\* arguments.
Solvency == Persisted => file.data.balance >= 0

\* Every call issued so far is still in its request slot: the ledger's
\* whole history is the operations of the requests in sight.
NothingReturned ==
  calls = Cardinality({r \in Requests : req[r].pc # "idle"})

IsOpen(op) == op \in {"buyStock", "buyOption"}

\* C2: trades take effect as if run one after another, so no successful
\* trade's effect is overwritten by another's save: when two opens are all
\* that was ever issued and both have returned success, the persisted ledger
\* holds both returned positions.
SerializableTrades ==
  \A r1, r2 \in Requests :
    (/\ r1 # r2
     /\ NothingReturned
     /\ req[r1].pc = "done" /\ IsOpen(req[r1].op) /\ Succeeded(r1)
     /\ req[r2].pc = "done" /\ IsOpen(req[r2].op) /\ Succeeded(r2))
    => /\ Persisted
       /\ \E i, j \in 1..Len(file.data.openPositions) :
            /\ i # j
            /\ file.data.openPositions[i] = req[r1].result.position
            /\ file.data.openPositions[j] = req[r2].result.position

\* C3: two openStock calls in flight together, which started from the same
\* persisted balance and together cost more than it, do not both succeed.
NoDoubleSpend ==
  \A r1, r2 \in Requests :
    (/\ r1 # r2
     /\ NothingReturned
     /\ Finished(r1, "buyStock") /\ Finished(r2, "buyStock")
     /\ req[r1].loaded.balance = req[r2].loaded.balance
     /\ req[r1].args.shares * req[r1].args.price
          + req[r2].args.shares * req[r2].args.price > req[r1].loaded.balance)
    => ~(Succeeded(r1) /\ Succeeded(r2))

\* C4: in every persisted ledger totalPL is the sum of profitLoss over
\* closedTrades.
RealizedPLIsSum ==
  Persisted => file.data.totalPL = SumProfitLoss(file.data.closedTrades)

\* A persisted ledger with two closed trades and a realized total that is not 0.
RealizedPLWitness ==
  /\ Persisted
  /\ Len(file.data.closedTrades) = 2
  /\ file.data.closedTrades[1].profitLoss # 0
  /\ file.data.totalPL # 0

\* C5: the open positions of a persisted ledger have pairwise distinct ids.
UniqueIds ==
  Persisted =>
    \A i, j \in 1..Len(file.data.openPositions) :
      i # j => file.data.openPositions[i].id # file.data.openPositions[j].id

\* C6: an open with a non-positive quantity, price, contract count or
\* premium fails (InvalidInput), creates no position and leaves the ledger
\* as it was.
RejectsNonPositive ==
  \A r \in Requests :
    (\/ /\ Finished(r, "buyStock")
        /\ (req[r].args.shares <= 0 \/ req[r].args.price <= 0)
     \/ /\ Finished(r, "buyOption")
        /\ (req[r].args.contracts <= 0 \/ req[r].args.premium <= 0))
    => /\ req[r].result.kind = "error"
       /\ file = FileJson(req[r].loaded)

\* C7: openStock fails with InsufficientFunds exactly when quantity*price is
\* greater than the balance it loaded; a cost equal to the balance succeeds
\* and leaves balance 0.
InsufficientFundsExactly ==
  \A r \in Requests :
    Finished(r, "buyStock") =>
      LET cost == req[r].args.shares * req[r].args.price
          balance == req[r].loaded.balance
      IN /\ Failed(r, ErrInsufficientFunds) <=> cost > balance
         /\ Succeeded(r) <=> cost <= balance
         /\ cost = balance =>
              /\ req[r].result.newBalance = 0
              /\ Persisted /\ file.data.balance = 0

\* An openStock that cost exactly the balance has succeeded.
ExactBalancePurchase ==
  \E r \in Requests :
    /\ Finished(r, "buyStock") /\ Succeeded(r)
    /\ req[r].args.shares * req[r].args.price = req[r].loaded.balance
    /\ req[r].loaded.balance > 0
    /\ file.data.balance = 0

\* C8: after a successful openStock(sym, q, p) with no other operation in
\* flight, the returned and the persisted balance are oldBalance - q*p, one
\* stock position with shares q, entryPrice p and costBasis q*p is added at
\* the end of openPositions, and closedTrades and totalPL are unchanged.
CostConservation ==
  \A r \in Requests :
    Finished(r, "buyStock") /\ Succeeded(r) =>
      LET old == req[r].loaded
          q == req[r].args.shares
          p == req[r].args.price
          n == Len(old.openPositions)
      IN /\ req[r].result.newBalance = old.balance - q * p
         /\ Persisted
         /\ file.data.balance = old.balance - q * p
         /\ Len(file.data.openPositions) = n + 1
         /\ SubSeq(file.data.openPositions, 1, n) = old.openPositions
         /\ file.data.openPositions[n + 1] = req[r].result.position
         /\ req[r].result.position.type = "stock"
         /\ req[r].result.position.symbol = req[r].args.symbol
         /\ req[r].result.position.shares = q
         /\ req[r].result.position.entryPrice = p
         /\ req[r].result.position.costBasis = q * p
         /\ file.data.closedTrades = old.closedTrades
         /\ file.data.totalPL = old.totalPL

\* A paid openStock has succeeded on a ledger that held a position already.
PurchaseAfterPurchase ==
  \E r \in Requests :
    /\ Finished(r, "buyStock") /\ Succeeded(r)
    /\ req[r].args.shares * req[r].args.price > 0
    /\ Len(req[r].loaded.openPositions) > 0
    /\ Len(file.data.openPositions) = Len(req[r].loaded.openPositions) + 1

\* C9: openOption costs premium*100*contracts, fails with InsufficientFunds
\* exactly when that is more than the balance, and on success adds one
\* option position with the given fields at the end of openPositions and
\* takes the cost off the balance, closedTrades and totalPL unchanged.
OptionPurchase ==
  \A r \in Requests :
    Finished(r, "buyOption") =>
      LET old == req[r].loaded
          a == req[r].args
          cost == a.premium * 100 * a.contracts
          n == Len(old.openPositions)
      IN /\ Failed(r, ErrInsufficientFunds) <=> cost > old.balance
         /\ Succeeded(r) <=> cost <= old.balance
         /\ Succeeded(r) =>
              /\ Persisted
              /\ file.data.balance = old.balance - cost
              /\ req[r].result.newBalance = old.balance - cost
              /\ Len(file.data.openPositions) = n + 1
              /\ SubSeq(file.data.openPositions, 1, n) = old.openPositions
              /\ file.data.openPositions[n + 1] = req[r].result.position
              /\ req[r].result.position.type = "option"
              /\ req[r].result.position.symbol = a.symbol
              /\ req[r].result.position.optionType = a.type
              /\ req[r].result.position.strike = a.strike
              /\ req[r].result.position.expiration = a.expiration
              /\ req[r].result.position.contracts = a.contracts
              /\ req[r].result.position.entryPremium = a.premium
              /\ req[r].result.position.costBasis = cost
              /\ file.data.closedTrades = old.closedTrades
              /\ file.data.totalPL = old.totalPL

\* A paid openOption has succeeded on a ledger that held a position already.
OptionAfterPurchase ==
  \E r \in Requests :
    /\ Finished(r, "buyOption") /\ Succeeded(r)
    /\ req[r].args.premium * 100 * req[r].args.contracts > 0
    /\ Len(req[r].loaded.openPositions) > 0
    /\ file.data.balance < req[r].loaded.balance

\* The indices of the stock positions of a symbol.
StockLots(positions, symbol) ==
  {i \in 1..Len(positions) :
     positions[i].type = "stock" /\ positions[i].symbol = symbol}

Least(S) == CHOOSE i \in S : \A j \in S : i <= j

\* C10: closeStock closes the first stock position of the symbol, in
\* insertion order, never an option on the symbol nor a later lot, and fails
\* with PositionNotFound exactly when no stock position has the symbol.
FirstStockLot ==
  \A r \in Requests :
    Finished(r, "sellStock") =>
      LET old == req[r].loaded.openPositions
          lots == StockLots(old, req[r].args.symbol)
      IN /\ Failed(r, ErrNoOpenPosition) <=> lots = {}
         /\ Succeeded(r) <=> lots # {}
         /\ lots # {} =>
              LET k == Least(lots)
              IN /\ \A f \in DOMAIN old[k] : req[r].result.trade[f] = old[k][f]
                 /\ Persisted
                 /\ Len(file.data.openPositions) = Len(old) - 1
                 /\ \A i \in 1..(Len(old) - 1) :
                      file.data.openPositions[i] = IF i < k THEN old[i] ELSE old[i + 1]

\* A closeStock has succeeded on a ledger holding two different lots of the
\* symbol.
SoldWithTwoLots ==
  \E r \in Requests :
    /\ Finished(r, "sellStock") /\ Succeeded(r)
    /\ LET old == req[r].loaded.openPositions
           lots == StockLots(old, req[r].args.symbol)
       IN \E i, j \in lots : i < j /\ old[i] # old[j]

\* v is what JavaScript gives for (profitLoss / costBasis) * 100: the
\* fraction profitLoss*100 over costBasis (with a positive denominator) when
\* costBasis is not 0, else NaN or an infinity of profitLoss's sign.
IsPercentOf(v, profitLoss, costBasis) ==
  IF costBasis = 0
    THEN v.kind = (IF profitLoss = 0 THEN "NaN"
                   ELSE IF profitLoss > 0 THEN "Infinity" ELSE "-Infinity")
    ELSE /\ v.kind = "finite"
         /\ costBasis > 0 => v.num = profitLoss * 100 /\ v.den = costBasis
         /\ costBasis < 0 => v.num = -(profitLoss * 100) /\ v.den = -costBasis

\* saved is the trade t as the file keeps it: field for field, a
\* percentReturn that is no finite number being kept as null.
IsSavedTrade(saved, t) ==
  /\ DOMAIN saved = DOMAIN t
  /\ \A f \in DOMAIN t \ {"percentReturn"} : saved[f] = t[f]
  /\ IF t.percentReturn.kind = "finite"
       THEN saved.percentReturn = t.percentReturn
       ELSE saved.percentReturn.kind = "null"

\* positions is old without its k-th element.
IsWithout(positions, old, k) ==
  /\ Len(positions) = Len(old) - 1
  /\ \A i \in 1..(Len(old) - 1) : positions[i] = IF i < k THEN old[i] ELSE old[i + 1]

\* C11: a successful closeStock(sym, currentPrice) with no other operation
\* in flight removes exactly one position from openPositions, appends exactly
\* one trade to closedTrades, made of that position with proceeds =
\* shares*currentPrice, profitLoss = proceeds - costBasis and percentReturn =
\* profitLoss/costBasis*100, and adds proceeds to the balance and profitLoss
\* to totalPL.
CloseStockBooks ==
  \A r \in Requests :
    Finished(r, "sellStock") /\ Succeeded(r) =>
      LET old == req[r].loaded
          t == req[r].result.trade
          proceeds == t.shares * req[r].args.currentPrice
          profitLoss == proceeds - t.costBasis
          n == Len(old.closedTrades)
      IN /\ \E k \in 1..Len(old.openPositions) :
              /\ \A f \in DOMAIN old.openPositions[k] : t[f] = old.openPositions[k][f]
              /\ Persisted
              /\ IsWithout(file.data.openPositions, old.openPositions, k)
         /\ Len(file.data.closedTrades) = n + 1
         /\ SubSeq(file.data.closedTrades, 1, n) = old.closedTrades
         /\ IsSavedTrade(file.data.closedTrades[n + 1], t)
         /\ t.exitPrice = req[r].args.currentPrice
         /\ t.proceeds = proceeds
         /\ t.profitLoss = profitLoss
         /\ IsPercentOf(t.percentReturn, profitLoss, t.costBasis)
         /\ file.data.balance = old.balance + proceeds
         /\ req[r].result.newBalance = old.balance + proceeds
         /\ file.data.totalPL = old.totalPL + profitLoss

\* A closeStock has succeeded at a profit on a ledger with two open
\* positions, of which one is left.
CloseStockAtProfit ==
  \E r \in Requests :
    /\ Finished(r, "sellStock") /\ Succeeded(r)
    /\ Len(req[r].loaded.openPositions) = 2
    /\ req[r].result.trade.costBasis > 0
    /\ req[r].result.trade.profitLoss > 0
    /\ Persisted /\ Len(file.data.openPositions) = 1

\* The indices of the positions with an id.
WithId(positions, id) == {i \in 1..Len(positions) : positions[i].id = id}

\* C12: closeOption fails with PositionNotFound when no open position has
\* the id and with WrongPositionType when the position with the id (the
\* first, should several have it) is a stock position; in both cases the
\* persisted openPositions, closedTrades, balance and totalPL are as the
\* call found them.
CloseOptionRefuses ==
  \A r \in Requests :
    Finished(r, "closeOption") =>
      LET old == req[r].loaded.openPositions
          hits == WithId(old, req[r].args.positionId)
      IN /\ hits = {} =>
              /\ Failed(r, ErrPositionNotFound)
              /\ file = FileJson(req[r].loaded)
         /\ (hits # {} /\ old[Least(hits)].type = "stock") =>
              /\ Failed(r, ErrNotAnOption)
              /\ file = FileJson(req[r].loaded)

\* A closeOption naming the id of a stock position was refused on a ledger
\* that holds an option position too.
StockIdRefused ==
  \E r \in Requests :
    /\ Finished(r, "closeOption") /\ Failed(r, ErrNotAnOption)
    /\ LET old == req[r].loaded.openPositions
       IN /\ \E i \in WithId(old, req[r].args.positionId) : old[i].type = "stock"
          /\ \E j \in 1..Len(old) : old[j].type = "option"
    /\ file = FileJson(req[r].loaded)

\* C13: a successful closeOption(positionId, exitPremium) with no other
\* operation in flight removes exactly the position with that id (the first,
\* should several have it) from openPositions, appends exactly one trade to
\* closedTrades, made of that position with proceeds =
\* exitPremium*100*contracts, profitLoss = proceeds - costBasis and
\* percentReturn = profitLoss/costBasis*100, and adds proceeds to the balance
\* and profitLoss to totalPL.
CloseOptionBooks ==
  \A r \in Requests :
    Finished(r, "closeOption") /\ Succeeded(r) =>
      LET old == req[r].loaded
          t == req[r].result.trade
          hits == WithId(old.openPositions, req[r].args.positionId)
          proceeds == req[r].args.exitPremium * 100 * t.contracts
          profitLoss == proceeds - t.costBasis
          n == Len(old.closedTrades)
      IN /\ hits # {}
         /\ old.openPositions[Least(hits)].type = "option"
         /\ \A f \in DOMAIN old.openPositions[Least(hits)] :
              t[f] = old.openPositions[Least(hits)][f]
         /\ Persisted
         /\ IsWithout(file.data.openPositions, old.openPositions, Least(hits))
         /\ Len(file.data.closedTrades) = n + 1
         /\ SubSeq(file.data.closedTrades, 1, n) = old.closedTrades
         /\ IsSavedTrade(file.data.closedTrades[n + 1], t)
         /\ t.exitPremium = req[r].args.exitPremium
         /\ t.proceeds = proceeds
         /\ t.profitLoss = profitLoss
         /\ IsPercentOf(t.percentReturn, profitLoss, t.costBasis)
         /\ file.data.balance = old.balance + proceeds
         /\ req[r].result.newBalance = old.balance + proceeds
         /\ file.data.totalPL = old.totalPL + profitLoss

\* A closeOption has succeeded at a profit on a ledger with two open
\* positions, closing the second of them.
CloseOptionAtProfit ==
  \E r \in Requests :
    /\ Finished(r, "closeOption") /\ Succeeded(r)
    /\ Len(req[r].loaded.openPositions) = 2
    /\ req[r].loaded.openPositions[2].id = req[r].args.positionId
    /\ req[r].loaded.openPositions[1].id # req[r].args.positionId
    /\ req[r].result.trade.costBasis > 0
    /\ req[r].result.trade.profitLoss > 0
    /\ Persisted /\ file.data.openPositions = <<req[r].loaded.openPositions[1]>>

\* C14: reset has no failing outcome, whatever the ledger it finds, and once
\* it has returned, with no other operation in flight, the persisted ledger
\* has balance 1,000,000, no open position, no closed trade and totalPL 0.
ResetRestores ==
  \A r \in Requests :
    Finished(r, "resetPortfolio") =>
      /\ Succeeded(r)
      /\ req[r].result.portfolio.balance = StartingBalance
      /\ Persisted
      /\ file.data = req[r].result.portfolio
      /\ file.data.balance = StartingBalance
      /\ file.data.openPositions = <<>>
      /\ file.data.closedTrades = <<>>
      /\ file.data.totalPL = 0

\* A reset has returned that was not the first call: it wrote over the
\* ledger the calls before it had persisted, at a later time than 0.
ResetOverLedger ==
  \E r \in Requests :
    /\ Finished(r, "resetPortfolio") /\ Succeeded(r)
    /\ calls = MaxSeqCalls
    /\ Persisted /\ file.data.createdAt = 1
    /\ file.data.openPositions = <<>>

TradeOps == {"buyStock", "sellStock", "buyOption", "closeOption"}

\* C15: when openStock, openOption, closeStock or closeOption has returned
\* an error (InsufficientFunds, PositionNotFound, WrongPositionType), with
\* no other operation in flight, the persisted ledger is the one the call
\* found; and an operation only ever starts the save of its changed ledger
\* when its checks pass on the ledger it loaded.
FailedTradeWritesNothing ==
  \A r \in Requests :
    /\ (req[r].pc = "done" /\ req[r].op \in TradeOps /\ req[r].result.kind = "error") =>
         /\ req[r].result.message \in {ErrInsufficientFunds, ErrNoOpenPosition,
                                       ErrPositionNotFound, ErrNotAnOption}
         /\ file = FileJson(req[r].loaded)
    /\ (req[r].pc \in {"save", "write"} /\ req[r].op \in TradeOps) =>
         /\ req[r].result = NoResult
         /\ Operation([req[r] EXCEPT !.portfolio = req[r].loaded], clock).ok

\* An openStock has failed for lack of funds on a ledger holding two
\* positions, and the file is that ledger.
RefusedOnSpentLedger ==
  \E r \in Requests :
    /\ Finished(r, "buyStock") /\ Failed(r, ErrInsufficientFunds)
    /\ Len(req[r].loaded.openPositions) = 2
    /\ req[r].loaded.balance < StartingBalance
    /\ file = FileJson(req[r].loaded)

\* C16: load hands the operation the persisted ledger as it is when a ledger
\* record exists, and creates and persists a fresh ledger only when no
\* record exists: a load that is saving a fresh ledger found no file, and a
\* load that found a file's text holds the ledger that was saved.
LoadCreatesOnlyWhenAbsent ==
  \A r \in Requests :
    /\ req[r].pc \in {"loadSave", "loadWrite"} =>
         /\ req[r].read = "absent"
         /\ req[r].loaded.balance = StartingBalance
         /\ req[r].loaded.openPositions = <<>>
         /\ req[r].loaded.closedTrades = <<>>
         /\ req[r].loaded.totalPL = 0
    /\ (req[r].pc = "loaded" /\ req[r].read # "absent") =>
         /\ req[r].read = "json"
         /\ req[r].portfolio = req[r].loaded

\* C17: a load that meets a record it cannot parse ends the operation with
\* an error (StoreIO) and writes nothing: the request that read the
\* unparseable text is finished, with an error as its result.
ReadFailureIsFatal ==
  \A r \in Requests :
    req[r].read = "partial" =>
      /\ req[r].pc = "done"
      /\ req[r].result.kind = "error"

\* C18: no load reads the file between the truncation and the write of
\* another operation's save, so every ledger an operation works on was
\* written in full by some operation (or is the fresh ledger of a first
\* run).
NoTornRead ==
  \A r \in Requests :
    req[r].pc # "idle" => req[r].read \in {"none", "absent", "json"}

IsClose(op) == op \in {"sellStock", "closeOption"}

\* C19: a position is closed at most once, also by close requests in flight
\* together: when three calls were ever issued and two of them are closes
\* that have finished, at most one position was ever opened, so the two
\* closes have not both succeeded.
ClosedOnce ==
  \A r1, r2 \in Requests :
    (/\ r1 # r2
     /\ calls = 3
     /\ req[r1].pc = "done" /\ IsClose(req[r1].op)
     /\ req[r2].pc = "done" /\ IsClose(req[r2].op))
    => ~(Succeeded(r1) /\ Succeeded(r2))

\* C20: when closeStock closes the position opened last (the newest of
\* openPositions) at its entry price, the trade has profitLoss 0 and
\* percentReturn 0, in the result and in the file, the balance is back to
\* what it was before the open (the balance found plus the cost basis the
\* open took) and totalPL is as found; after an open and its close on a
\* first ledger that is balance 1,000,000 and totalPL 0.
RoundTripNeutral ==
  \A r \in Requests :
    (/\ Finished(r, "sellStock") /\ Succeeded(r)
     /\ Least(StockLots(req[r].loaded.openPositions, req[r].args.symbol))
          = Len(req[r].loaded.openPositions)
     /\ req[r].result.trade.entryPrice = req[r].args.currentPrice)
    => LET old == req[r].loaded
           t == req[r].result.trade
       IN /\ t.profitLoss = 0
          /\ t.percentReturn.kind = "finite" /\ t.percentReturn.num = 0
          /\ req[r].result.newBalance = old.balance + t.costBasis
          /\ Persisted
          /\ file.data.balance = old.balance + t.costBasis
          /\ file.data.totalPL = old.totalPL
          /\ LET saved == file.data.closedTrades[Len(file.data.closedTrades)]
             IN /\ saved.profitLoss = 0
                /\ saved.percentReturn.kind = "finite" /\ saved.percentReturn.num = 0
          /\ calls = 2 => file.data.balance = StartingBalance /\ file.data.totalPL = 0

\* The i-th open position a finished getPortfolio loaded, the outcome of its
\* price lookup and its entry in the view.
Held(r, i) == req[r].loaded.openPositions[i]

Quote(r, i) == req[r].args.getCurrentPrice[i]

Valued(r, i) == req[r].result.view.openPositions[i]

Viewed(r) == Finished(r, "getPortfolio") /\ Succeeded(r)

IsZero(v) == v.kind = "finite" /\ v.num = 0 /\ v.den # 0

\* C21: for every open stock position whose price lookup succeeded with
\* price c, the view has currentValue = shares*c, unrealizedPL =
\* currentValue - costBasis and unrealizedPercent = unrealizedPL/costBasis*100.
StockValuation ==
  \A r \in Requests :
    Viewed(r) =>
      \A i \in 1..Len(req[r].loaded.openPositions) :
        (Held(r, i).type = "stock" /\ Quote(r, i).ok) =>
          /\ Valued(r, i).currentPrice = Quote(r, i).price
          /\ Valued(r, i).currentValue = Held(r, i).shares * Quote(r, i).price
          /\ Valued(r, i).unrealizedPL
               = Held(r, i).shares * Quote(r, i).price - Held(r, i).costBasis
          /\ IsPercentOf(Valued(r, i).unrealizedPercent,
                         Held(r, i).shares * Quote(r, i).price - Held(r, i).costBasis,
                         Held(r, i).costBasis)

\* A view holds a paid stock position valued at a loss at the price its
\* lookup gave.
StockValuedAtLoss ==
  \E r \in Requests :
    /\ Viewed(r)
    /\ \E i \in 1..Len(req[r].loaded.openPositions) :
         /\ Held(r, i).type = "stock" /\ Quote(r, i).ok
         /\ Held(r, i).costBasis > 0
         /\ Valued(r, i).unrealizedPL < 0
         /\ Valued(r, i).unrealizedPercent.num < 0

\* C22: a getPortfolio whose price lookups fail for any of its positions
\* still returns the complete view: one entry per open position, those
\* whose lookup failed with currentValue = costBasis, unrealizedPL 0 and
\* unrealizedPercent 0, the stock positions whose lookup succeeded valued at
\* their price; getPortfolio has no failing outcome.
QuoteFailureTolerated ==
  \A r \in Requests :
    Finished(r, "getPortfolio") =>
      /\ Succeeded(r)
      /\ Len(req[r].result.view.openPositions) = Len(req[r].loaded.openPositions)
      /\ \A i \in 1..Len(req[r].loaded.openPositions) :
           /\ \A f \in DOMAIN Held(r, i) : Valued(r, i)[f] = Held(r, i)[f]
           /\ ~Quote(r, i).ok =>
                /\ Valued(r, i).currentValue = Held(r, i).costBasis
                /\ Valued(r, i).unrealizedPL = 0
                /\ IsZero(Valued(r, i).unrealizedPercent)
           /\ (Quote(r, i).ok /\ Held(r, i).type = "stock") =>
                Valued(r, i).currentValue = Held(r, i).shares * Quote(r, i).price
      /\ req[r].result.view.balance = req[r].loaded.balance
      /\ req[r].result.view.closedTrades = req[r].loaded.closedTrades
      /\ req[r].result.view.totalPL = req[r].loaded.totalPL

\* A view of two paid stock positions, the lookup of the first failed and
\* that of the second succeeded at a price other than its entry price.
OneQuoteFailed ==
  \E r \in Requests :
    /\ Viewed(r)
    /\ Len(req[r].loaded.openPositions) = 2
    /\ ~Quote(r, 1).ok /\ Held(r, 1).costBasis > 0
    /\ Valued(r, 1).currentValue = Held(r, 1).costBasis
    /\ Quote(r, 2).ok /\ Held(r, 2).type = "stock" /\ Held(r, 2).costBasis > 0
    /\ Valued(r, 2).currentValue # Held(r, 2).costBasis

\* C23: every open option position is in the view with currentValue =
\* costBasis, unrealizedPL 0 and unrealizedPercent 0, whether its price
\* lookup failed or succeeded and whatever the price.
OptionValuation ==
  \A r \in Requests :
    Viewed(r) =>
      \A i \in 1..Len(req[r].loaded.openPositions) :
        Held(r, i).type = "option" =>
          /\ Valued(r, i).currentValue = Held(r, i).costBasis
          /\ Valued(r, i).unrealizedPL = 0
          /\ IsZero(Valued(r, i).unrealizedPercent)

\* A view holds a paid option whose lookup succeeded, next to a stock
\* position valued at that same price.
OptionValuedWithQuote ==
  \E r \in Requests :
    /\ Viewed(r)
    /\ \E i, j \in 1..Len(req[r].loaded.openPositions) :
         /\ Held(r, i).type = "option" /\ Quote(r, i).ok
         /\ Held(r, i).costBasis > 0
         /\ Valued(r, i).underlyingPrice = Quote(r, i).price
         /\ Held(r, j).type = "stock" /\ Quote(r, j) = Quote(r, i)
         /\ Valued(r, j).unrealizedPL # 0

RECURSIVE FieldSum(_, _)
FieldSum(records, field) ==
  IF records = <<>> THEN 0
  ELSE records[1][field] + FieldSum(Tail(records), field)

\* C24: in the view totalPortfolioValue = balance + the sum of currentValue
\* over the open positions, totalUnrealizedPL = the sum of unrealizedPL,
\* totalReturn = totalPortfolioValue - 1,000,000 and totalReturnPercent =
\* totalReturn/1,000,000*100.
ValuationAggregates ==
  \A r \in Requests :
    Viewed(r) =>
      LET view == req[r].result.view
      IN /\ view.totalPortfolioValue
              = req[r].loaded.balance + FieldSum(view.openPositions, "currentValue")
         /\ view.totalUnrealizedPL = FieldSum(view.openPositions, "unrealizedPL")
         /\ view.totalReturn = view.totalPortfolioValue - 1000000
         /\ IsPercentOf(view.totalReturnPercent, view.totalReturn, 1000000)

\* A view of two open positions with an unrealized result and a total
\* return that are not 0.
AggregatesOverTwo ==
  \E r \in Requests :
    /\ Viewed(r)
    /\ Len(req[r].result.view.openPositions) = 2
    /\ req[r].result.view.openPositions[1].currentValue > 0
    /\ req[r].result.view.openPositions[2].currentValue > 0
    /\ req[r].result.view.totalUnrealizedPL # 0
    /\ req[r].result.view.totalReturn # 0
    /\ req[r].result.view.balance < StartingBalance

\* C25: a getPortfolio that found a ledger in the file never saves: it goes
\* from its load to its return with its copy as loaded, and, no other
\* operation being in flight, the file still holds that ledger, whatever
\* the price lookups gave.
ValuationReadsOnly ==
  \A r \in Requests :
    (req[r].op = "getPortfolio" /\ req[r].read = "json") =>
      /\ req[r].pc \in {"loaded", "done"}
      /\ req[r].portfolio = req[r].loaded
      /\ file = FileJson(req[r].loaded)
      /\ req[r].pc = "done" => Succeeded(r)

\* A view was returned of a ledger with two open positions, one lookup
\* failed and one answered, and the file is that ledger.
ViewedHeldLedger ==
  \E r \in Requests :
    /\ Viewed(r) /\ req[r].read = "json"
    /\ Len(req[r].loaded.openPositions) = 2
    /\ ~Quote(r, 1).ok /\ Quote(r, 2).ok
    /\ file = FileJson(req[r].loaded)

ExpectedOutcome(q) ==
  CASE q.op = "buyStock" ->
         IF q.args.shares <= 0 \/ q.args.price <= 0 THEN "InvalidInput"
         ELSE IF q.args.shares * q.args.price > q.loaded.balance THEN "InsufficientFunds"
         ELSE "ok"
    [] q.op = "buyOption" ->
         IF q.args.contracts <= 0 \/ q.args.premium <= 0 THEN "InvalidInput"
         ELSE IF q.args.premium * 100 * q.args.contracts > q.loaded.balance
           THEN "InsufficientFunds"
         ELSE "ok"
    [] q.op = "sellStock" ->
         IF StockLots(q.loaded.openPositions, q.args.symbol) = {} THEN "PositionNotFound"
         ELSE "ok"
    [] q.op = "closeOption" ->
         LET hits == WithId(q.loaded.openPositions, q.args.positionId)
         IN IF hits = {} THEN "PositionNotFound"
            ELSE IF q.loaded.openPositions[Least(hits)].type = "stock"
              THEN "WrongPositionType"
            ELSE "ok"

\* The error kind a caller reads off an error's message.
KindOf(message) ==
  CASE message = ErrInsufficientFunds -> "InsufficientFunds"
    [] message \in {ErrNoOpenPosition, ErrPositionNotFound} -> "PositionNotFound"
    [] message = ErrNotAnOption -> "WrongPositionType"
    [] OTHER -> "unknown"

\* C27: every failure of a trade operation is returned as an error from
\* which the caller can tell its kind, and no failure is returned as a
\* success: a finished trade operation has succeeded exactly when its
\* outcome is no failure, and otherwise its error is of the outcome's kind.
FailuresDistinguishable ==
  \A r \in Requests :
    (req[r].pc = "done" /\ req[r].op \in TradeOps) =>
      IF ExpectedOutcome(req[r]) = "ok"
        THEN Succeeded(r)
        ELSE /\ req[r].result.kind = "error"
             /\ KindOf(req[r].result.message) = ExpectedOutcome(req[r])

\* How far an operation has got: the steps of a call in the order the code
\* takes them.
Progress(pc) ==
  CASE pc = "idle" -> 0
    [] pc = "loadSave" -> 1
    [] pc = "loadWrite" -> 2
    [] pc = "loaded" -> 3
    [] pc = "save" -> 4
    [] pc = "write" -> 5
    [] pc = "done" -> 6

\* C28: reads and writes that were started completing, every call of
\* openStock, closeStock, openOption, closeOption and reset (each with its
\* load) returns a result, success or error, whatever other calls are in
\* flight; and no call goes back to a step it has taken (no retry).
EveryCallReturns ==
  /\ \A r \in Requests :
       (req[r].pc \notin {"idle", "done"})
         ~> (req[r].pc = "done" /\ req[r].result.kind \in {"success", "error"})
  /\ [][\A r \in Requests :
          req'[r].pc # "idle" => Progress(req'[r].pc) >= Progress(req[r].pc)]_vars

\* A call has returned while the other request is in the middle of its
\* write.
ReturnedBesideWrite ==
  \E r1, r2 \in Requests :
    /\ req[r1].pc = "done"
    /\ req[r2].pc = "write"
    /\ calls = MaxLiveCalls

\* The fields a position keeps from its creation to its closed trade.
KeptFields(position) ==
  IF position.type = "stock"
    THEN {"id", "symbol", "type", "shares", "entryPrice", "entryDate", "costBasis"}
    ELSE {"id", "symbol", "type", "contracts", "entryPremium", "entryDate", "costBasis"}

\* C29: no operation changes a field of an open position.  The ledger an
\* open saves holds the positions it loaded, as they were, and the new one
\* after them; the ledger a close saves holds the positions it loaded but
\* one, as they were, and its closed trade carries that one's id, symbol,
\* type, quantity, entry price or premium, entryDate and costBasis; a failed
\* operation and a valuation leave the file's positions as loaded, and the
\* view's entries carry the positions' fields.  (One request at a time.)
PositionsImmutable ==
  \A r \in Requests :
    LET old == req[r].loaded.openPositions
        new == req[r].portfolio.openPositions
    IN /\ (/\ req[r].op \in TradeOps
           /\ req[r].pc \in {"save", "write"} \/ (req[r].pc = "done" /\ Succeeded(r))) =>
            /\ IsOpen(req[r].op) =>
                 /\ Len(new) = Len(old) + 1
                 /\ SubSeq(new, 1, Len(old)) = old
            /\ IsClose(req[r].op) =>
                 \E k \in 1..Len(old) :
                   /\ IsWithout(new, old, k)
                   /\ KeptFields(old[k]) \subseteq DOMAIN old[k]
                   /\ LET t == req[r].portfolio.closedTrades[Len(req[r].portfolio.closedTrades)]
                      IN \A f \in KeptFields(old[k]) : t[f] = old[k][f]
            /\ req[r].pc = "done" => Persisted /\ file.data.openPositions = new
       /\ (req[r].op \in TradeOps /\ req[r].pc = "done" /\ ~Succeeded(r)) =>
            Persisted /\ file.data.openPositions = old
       /\ Viewed(r) =>
            /\ Persisted /\ file.data.openPositions = old
            /\ \A i \in 1..Len(old) :
                 \A f \in KeptFields(old[i]) : Valued(r, i)[f] = old[i][f]

\* A closeStock has succeeded on a ledger holding a stock and an option
\* position, and the file holds the other position as it was.
OtherPositionKept ==
  \E r \in Requests :
    /\ Finished(r, "sellStock") /\ Succeeded(r)
    /\ Len(req[r].loaded.openPositions) = 2
    /\ \E i \in 1..2 :
         /\ req[r].loaded.openPositions[i].type = "option"
         /\ Persisted
         /\ file.data.openPositions = <<req[r].loaded.openPositions[i]>>

\* C30: in every persisted ledger an open stock position has shares > 0,
\* entryPrice > 0 and costBasis = shares*entryPrice, and an open option
\* position has contracts > 0, entryPremium > 0 and costBasis =
\* entryPremium*100*contracts.
PositionInvariants ==
  Persisted =>
    \A i \in 1..Len(file.data.openPositions) :
      LET p == file.data.openPositions[i]
      IN IF p.type = "stock"
           THEN p.shares > 0 /\ p.entryPrice > 0 /\ p.costBasis = p.shares * p.entryPrice
           ELSE /\ p.contracts > 0 /\ p.entryPremium > 0
                /\ p.costBasis = p.entryPremium * 100 * p.contracts

\* C31: GET /api/indexes answers with cached: true only with index data
\* that were fetched less than CACHE_DURATION (5 minutes) before the answer.
IndexCacheFresh ==
  \A r \in Requests :
    (Finished(r, "indexes") /\ req[r].result.cached) =>
      \A i \in 1..Len(req[r].result.indexes) :
        req[r].result.servedAt - req[r].result.indexes[i].asOf < CACHE_DURATION

\* C32: a research query that matches the buy-option pattern calls buyOption,
\* with the contracts, symbol, strike, type and premium the query names, and
\* no other ledger operation.
OptionQueryBuysOption ==
  \A r \in Requests :
    LET q == req[r]
        option == optionMatch(q.args.query)
    IN (q.pc # "idle" /\ "query" \in DOMAIN q.args /\ option.matched) =>
         /\ q.op = "buyOption"
         /\ q.args.symbol = option.symbol
         /\ q.args.type = option.optionType
         /\ q.args.strike = parseFloat[option.strike]
         /\ q.args.premium = parseFloat[option.premium]
         /\ q.args.contracts = parseInt[option.contracts]

\* C33: in every persisted ledger, under any interleaving of opens and
\* closes, balance + the sum of costBasis over the open positions - the
\* realized total is the starting 1,000,000.
AccountingIdentity ==
  Persisted =>
    file.data.balance + FieldSum(file.data.openPositions, "costBasis")
      - file.data.totalPL = StartingBalance

\* A persisted ledger with a position still open beside a closed option
\* trade.
AccountedAfterClose ==
  /\ Persisted
  /\ Len(file.data.openPositions) >= 1
  /\ \E i \in 1..Len(file.data.closedTrades) :
       /\ file.data.closedTrades[i].type = "option"
       /\ file.data.closedTrades[i].profitLoss # 0

Selects(q, position) ==
  IF q.op = "sellStock"
    THEN position.type = "stock" /\ position.symbol = q.args.symbol
    ELSE position.id = q.args.positionId

\* C35: a successful closeStock or closeOption removes the selected position
\* only: the persisted openPositions is the loaded one without it, the others
\* as they were and in their order; a successful openStock or openOption
\* leaves the loaded positions in place and puts the new one after them.
\* (One request at a time.)
CloseKeepsTheRest ==
  \A r \in Requests :
    LET old == req[r].loaded.openPositions
        n == Len(old)
    IN (req[r].pc = "done" /\ req[r].op \in TradeOps /\ Succeeded(r)) =>
         /\ Persisted
         /\ IsClose(req[r].op) =>
              \E k \in 1..n :
                /\ Selects(req[r], old[k])
                /\ Len(file.data.openPositions) = n - 1
                /\ SubSeq(file.data.openPositions, 1, k - 1) = SubSeq(old, 1, k - 1)
                /\ SubSeq(file.data.openPositions, k, n - 1) = SubSeq(old, k + 1, n)
         /\ IsOpen(req[r].op) =>
              /\ Len(file.data.openPositions) = n + 1
              /\ \A i \in 1..n : file.data.openPositions[i] = old[i]
              /\ file.data.openPositions[n + 1] = req[r].result.position

\* A close has succeeded on a ledger where positions follow the selected
\* one, and the file holds those.
ClosedBeforeOthers ==
  \E r \in Requests :
    /\ req[r].pc = "done" /\ IsClose(req[r].op) /\ Succeeded(r)
    /\ Len(req[r].loaded.openPositions) >= 2
    /\ Selects(req[r], req[r].loaded.openPositions[1])
    /\ Persisted
    /\ file.data.openPositions = Tail(req[r].loaded.openPositions)

\* C36: in every persisted ledger no position id is both in openPositions
\* and in closedTrades, and no id is twice in closedTrades.
OpenClosedDisjoint ==
  Persisted =>
    /\ \A i \in 1..Len(file.data.openPositions) :
         \A j \in 1..Len(file.data.closedTrades) :
           file.data.openPositions[i].id # file.data.closedTrades[j].id
    /\ \A i, j \in 1..Len(file.data.closedTrades) :
         i # j => file.data.closedTrades[i].id # file.data.closedTrades[j].id

\* C37: a trade that was in flight across a reset does not bring back the
\* ledger from before it.  While the reset that has returned is still in
\* sight and a trade has completed, a persisted ledger is the reset's ledger
\* or a later one: it was created no earlier than the reset's, and so were
\* its open positions and closed trades.
ResetNotUndone ==
  \A r1, r2 \in Requests :
    (/\ Finished(r1, "resetPortfolio")
     /\ req[r2].pc = "done" /\ req[r2].op \in TradeOps
     /\ Persisted)
    => LET since == req[r1].result.portfolio.createdAt
       IN /\ file.data.createdAt >= since
          /\ \A i \in 1..Len(file.data.openPositions) :
               file.data.openPositions[i].entryDate >= since
          /\ \A i \in 1..Len(file.data.closedTrades) :
               file.data.closedTrades[i].entryDate >= since

\* C38: the view getPortfolio returns is built from the one ledger it loaded
\* at its start, also when trades commit while its price lookups are
\* pending: balance, closedTrades and totalPL are that ledger's, and the
\* view's openPositions holds that ledger's positions, as many and in their
\* order.
ViewFromOneSnapshot ==
  \A r \in Requests :
    Viewed(r) =>
      LET snapshot == req[r].loaded
          view == req[r].result.view
      IN /\ view.balance = snapshot.balance
         /\ view.closedTrades = snapshot.closedTrades
         /\ view.totalPL = snapshot.totalPL
         /\ Len(view.openPositions) = Len(snapshot.openPositions)
         /\ \A i \in 1..Len(snapshot.openPositions) :
              \A f \in DOMAIN snapshot.openPositions[i] :
                view.openPositions[i][f] = snapshot.openPositions[i][f]

\* A view was returned of a ledger with an open position although the other
\* request, which had loaded the same ledger, has committed a trade: the
\* file holds another balance than the view.
ViewedAcrossCommit ==
  \E r1, r2 \in Requests :
    /\ r1 # r2
    /\ Viewed(r1) /\ req[r1].read = "json"
    /\ Len(req[r1].loaded.openPositions) >= 1
    /\ req[r2].pc = "done" /\ req[r2].op \in TradeOps /\ Succeeded(r2)
    /\ req[r2].loaded = req[r1].loaded
    /\ Persisted
    /\ file.data.balance # req[r1].result.view.balance

====
